---- MODULE Spec2Model ----
(***************************************************************************)
(* State-machine model of DocumentProcessor (src/src/document_processor.py)*)
(* together with its collaborators: the file system, the format parsers    *)
(* and the ChromaDB client that holds the collection "doc_collection".     *)
(* Python str values are TLA+ strings; Python lists are sequences.         *)
(***************************************************************************)
EXTENDS Integers, Sequences, FiniteSets, TLC

VARIABLES
    pages,          \* self.pages: list of {"index", "text", "label"}
    current_page,   \* self.current_page
    file_path,      \* self.file_path
    doc_type,       \* self.doc_type
    title,          \* self.title
    collection,     \* self.collection: None or the handle of the collection
    svc,            \* the Chroma client's view of "doc_collection"
    fs,             \* the file system: path -> content of the file
    op,             \* name of the last public operation called
    arg,            \* its arguments
    ret,            \* its return value (None when it raised)
    raised,         \* TRUE iff an exception propagated out of it
    calls           \* collaborator calls it made, in order, with outcomes

vars == <<pages, current_page, file_path, doc_type, title, collection,
          svc, fs, op, arg, ret, raised, calls>>

-----------------------------------------------------------------------------
(* Bounds of the exploration.                                              *)

\* files that unload(delete_file=True) may remove from disk in one run
MaxDeleted == 1
\* chunks a failing collection.add() may already have stored
MaxPartialAdd == 1
\* go_to_page(index) ranges over -1..MaxGoto
MaxGoto == 2
\* rankings a successful collection.query() may answer with
MaxRankings == 2
\* words on the first and on the last page of the PDF on disk
LongWords == 400
ShortWords == 200
\* the generated documents hold ScenarioWords words, or a number of words
\* within MaxSlack of 0, 1, ..., MaxWindows times the window of their format
ScenarioWords == 650
MaxWindows == 2
MaxSlack == 1
\* paragraphs of the structured DOCX documents: 0..MaxParagraphs
MaxParagraphs == 4
\* words of the one-line file that search() is run on
LineWords == 60

-----------------------------------------------------------------------------
(* Python built-ins used by the program.                                   *)

None == "<None>"

Min(a, b) == IF a < b THEN a ELSE b
Max(a, b) == IF a > b THEN a ELSE b

Char(s, i) == SubSeq(s, i, i)

\* s[a:b] for 0 <= a, 0 <= b
Slice(s, a, b) == SubSeq(s, a + 1, Min(b, Len(s)))

\* s[a:]
SliceFrom(s, a) == SubSeq(s, a + 1, Len(s))

\* s.startswith(prefix)
StartsWith(s, prefix) == Len(s) >= Len(prefix) /\ SubSeq(s, 1, Len(prefix)) = prefix

IsSpace(c) == c \in {" ", "\t", "\n", "\r"}

\* str.strip()
RECURSIVE LStripIdx(_, _)
LStripIdx(s, i) == IF i <= Len(s) /\ IsSpace(Char(s, i)) THEN LStripIdx(s, i + 1) ELSE i
RECURSIVE RStripIdx(_, _)
RStripIdx(s, i) == IF i >= 1 /\ IsSpace(Char(s, i)) THEN RStripIdx(s, i - 1) ELSE i
Strip(s) == SubSeq(s, LStripIdx(s, 1), RStripIdx(s, Len(s)))

\* sep.join(xs[lo..hi])
RECURSIVE JoinRange(_, _, _, _)
JoinRange(sep, xs, lo, hi) ==
    IF lo > hi THEN ""
    ELSE IF lo = hi THEN xs[lo]
    ELSE LET mid == (lo + hi) \div 2
         IN JoinRange(sep, xs, lo, mid) \o sep \o JoinRange(sep, xs, mid + 1, hi)

\* sep.join(xs)
Join(sep, xs) == JoinRange(sep, xs, 1, Len(xs))

\* positions lo..hi of s at which a whitespace-separated word starts
RECURSIVE WordStarts(_, _, _)
WordStarts(s, lo, hi) ==
    IF lo > hi THEN <<>>
    ELSE IF lo = hi
         THEN IF ~IsSpace(Char(s, lo)) /\ (lo = 1 \/ IsSpace(Char(s, lo - 1)))
              THEN <<lo>> ELSE <<>>
    ELSE LET mid == (lo + hi) \div 2
         IN WordStarts(s, lo, mid) \o WordStarts(s, mid + 1, hi)

RECURSIVE WordEnd(_, _)
WordEnd(s, i) == IF i < Len(s) /\ ~IsSpace(Char(s, i + 1)) THEN WordEnd(s, i + 1) ELSE i

RECURSIVE WordsAt(_, _, _, _)
WordsAt(s, st, lo, hi) ==
    IF lo > hi THEN <<>>
    ELSE IF lo = hi THEN <<SubSeq(s, st[lo], WordEnd(s, st[lo]))>>
    ELSE LET mid == (lo + hi) \div 2
         IN WordsAt(s, st, lo, mid) \o WordsAt(s, st, mid + 1, hi)

\* str.split() with no separator: the maximal runs of non-whitespace
SplitWords(s) == LET st == WordStarts(s, 1, Len(s)) IN WordsAt(s, st, 1, Len(st))

UpperCase == "ABCDEFGHIJKLMNOPQRSTUVWXYZ"
LowerCase == "abcdefghijklmnopqrstuvwxyz"

LowerChar(c) ==
    IF \E i \in 1..26 : Char(UpperCase, i) = c
    THEN Char(LowerCase, CHOOSE i \in 1..26 : Char(UpperCase, i) = c)
    ELSE c

RECURSIVE LowerRange(_, _, _)
LowerRange(s, lo, hi) ==
    IF lo > hi THEN ""
    ELSE IF lo = hi THEN LowerChar(Char(s, lo))
    ELSE LET mid == (lo + hi) \div 2
         IN LowerRange(s, lo, mid) \o LowerRange(s, mid + 1, hi)

\* str.lower()
LowerStr(s) == LowerRange(s, 1, Len(s))

\* least 1-based position in lo..hi at which q occurs in s, 0 if there is none
RECURSIVE FindIn(_, _, _, _)
FindIn(s, q, lo, hi) ==
    IF lo > hi THEN 0
    ELSE IF lo = hi THEN (IF SubSeq(s, lo, lo + Len(q) - 1) = q THEN lo ELSE 0)
    ELSE LET mid == (lo + hi) \div 2
             l == FindIn(s, q, lo, mid)
         IN IF l # 0 THEN l ELSE FindIn(s, q, mid + 1, hi)

\* str.find(q): 0-based position of the first occurrence, -1 if there is none
FindStr(s, q) == FindIn(s, q, 1, Len(s) - Len(q) + 1) - 1

\* the last 1-based position of character c in s[1..i], 0 if there is none
RECURSIVE LastIndexOf(_, _, _)
LastIndexOf(s, c, i) ==
    IF i = 0 THEN 0 ELSE IF Char(s, i) = c THEN i ELSE LastIndexOf(s, c, i - 1)

\* os.path.basename(p)
Basename(p) == SliceFrom(p, LastIndexOf(p, "/", Len(p)))

\* os.path.splitext(p)[1]: from the last dot of the last path component,
\* unless that component consists of leading dots only up to there
RECURSIVE LeadingDotsOnly(_, _, _)
LeadingDotsOnly(p, i, dot) ==
    IF i >= dot THEN TRUE
    ELSE IF Char(p, i) # "." THEN FALSE
    ELSE LeadingDotsOnly(p, i + 1, dot)

SplitextExt(p) ==
    LET sep == LastIndexOf(p, "/", Len(p))
        dot == LastIndexOf(p, ".", Len(p))
    IN IF dot > sep /\ ~LeadingDotsOnly(p, sep + 1, dot) THEN SliceFrom(p, dot - 1) ELSE ""

\* list(range(0, n, step)) for step >= 1
RECURSIVE RangeFrom(_, _, _)
RangeFrom(i, n, step) == IF i >= n THEN <<>> ELSE <<i>> \o RangeFrom(i + step, n, step)
Range0(n, step) == RangeFrom(0, n, step)

-----------------------------------------------------------------------------
(* Constants of the program.                                               *)

TxtChunkSize == 600         \* _load_txt: chunk_size
DocxChunkSize == 500        \* _load_docx: chunk_size of the heading-less fallback
IndexChunkSize == 300       \* _build_vector_index: chunk_size
IndexOverlap == 50          \* _build_vector_index: overlap
EpubMinChars == 100         \* _load_epub: len(text) > 100
DefaultMaxChars == 50000    \* get_full_text: max_chars default
DefaultNResults == 4        \* get_relevant_context: n_results default
ContextMaxChars == 10000    \* get_relevant_context: get_full_text(max_chars=10000)
SnippetBefore == 60         \* search: pos-60
SnippetAfter == 120         \* search: pos+120
UntitledDocument == "Untitled Document"
CollectionName == "doc_collection"

-----------------------------------------------------------------------------
(* The files on disk.  A file is what its parser collaborator hands to the *)
(* program: the text of a .txt file, the page texts of a PDF, the          *)
(* paragraphs (style name, text) of a DOCX, the items of an EPUB.          *)

ITEM_DOCUMENT == "ITEM_DOCUMENT"
ITEM_IMAGE == "ITEM_IMAGE"
NoTag == "<no h1/h2/h3>"

\* a page text of the given number of words, 17 characters a word
LongPage(tag, words) ==
    Join(" ", <<"Hello", tag>> \o [k \in 1..(words - 2) |-> "lorem-ipsum-" \o ToString(1000 + k)])

TxtFile == [kind |-> "txt", content |-> "say hello world\nEchoVision uses  FastAPI\n"]
BlankTxtFile == [kind |-> "txt", content |-> " \n\t\n"]
MarkdownFile == [kind |-> "txt", content |-> "# notes"]

\* a PDF whose second page has no text, whose first page makes two chunks
\* and whose text exceeds ContextMaxChars
PdfFile ==
    [kind |-> "pdf",
     doc |-> <<"  " \o LongPage("first", LongWords) \o "\n", " \n", LongPage("second", ShortWords)>>]

DocxFile ==
    [kind |-> "docx",
     paragraphs |-> << [style |-> "Heading 1", text |-> "Intro"],
                       [style |-> "Normal", text |-> " Hello there. "],
                       [style |-> "Normal", text |-> "  "],
                       [style |-> "Heading 2", text |-> "Methods"],
                       [style |-> "Normal", text |-> "We measure twice."] >>]

EpubChapterText ==
    "Chapter One\nIt was a bright cold day in April, and the clocks were striking thirteen. "
    \o "Winston Smith slipped quickly through the glass doors of Victory Mansions."

EpubFile ==
    [kind |-> "epub",
     items |-> << [type |-> ITEM_IMAGE, text |-> "", heading |-> NoTag],
                  [type |-> ITEM_DOCUMENT, text |-> "  Cover \n", heading |-> "Cover"],
                  [type |-> ITEM_DOCUMENT, text |-> EpubChapterText, heading |-> " Chapter One "],
                  [type |-> ITEM_DOCUMENT, text |-> EpubChapterText \o "\n(end)", heading |-> NoTag] >>]

\* the disk at the start
Catalogue ==
    [p \in {"docs/a.txt", "blank.txt", "b.PDF", "e.md"} |->
        CASE p = "docs/a.txt" -> TxtFile
          [] p = "blank.txt" -> BlankTxtFile
          [] p = "b.PDF" -> PdfFile
          [] p = "e.md" -> MarkdownFile]

Paths == DOMAIN Catalogue

\* what a parser finds at a path that is not on disk: nothing to open
MissingFile == [kind |-> "missing"]

\* the k-th word of a generated text
Word(k) == "w" \o ToString(k)

\* a text of n words
WordRun(n) == Join(" ", [k \in 1..n |-> Word(k)])

\* the word counts of the generated documents of a format whose window is
\* chunk_size words
WordCounts(chunk_size) ==
    {ScenarioWords}
    \cup {n \in {w * chunk_size + d : w \in 0..MaxWindows, d \in (-MaxSlack)..MaxSlack} : n >= 0}

\* a .txt file of n words
TxtOfWords(n) == [kind |-> "txt", content |-> " " \o WordRun(n) \o "\n"]

\* a DOCX document without headings whose body holds n words
DocxOfWords(n) ==
    [kind |-> "docx",
     paragraphs |-> << [style |-> "Normal", text |-> WordRun(n)],
                       [style |-> "Normal", text |-> " "] >>]

\* the paragraphs a structured DOCX document is made of
ParagraphKinds ==
    { [style |-> "Heading 1", text |-> "Intro"],
      [style |-> "Heading 2", text |-> " Methods "],
      [style |-> "Heading 1", text |-> " "],
      [style |-> "Normal", text |-> "We measure twice."] }

\* the structured DOCX documents of at most MaxParagraphs paragraphs
StructuredDocx ==
    UNION {{[kind |-> "docx", paragraphs |-> ps] : ps \in [1..n -> ParagraphKinds]}
           : n \in 0..MaxParagraphs}

\* the disks that hold one generated document
Disks ==
    {[p \in {"notes.txt"} |-> TxtOfWords(n)] : n \in WordCounts(TxtChunkSize)}
    \cup {[p \in {"Report.DOCX"} |-> DocxOfWords(n)] : n \in WordCounts(DocxChunkSize) \ {0}}
    \cup {[p \in {"report.docx"} |-> d] : d \in StructuredDocx}

-----------------------------------------------------------------------------
(* Private loaders.  Each appends to self.pages, which load() has just     *)
(* emptied, and may raise; the result is the list built so far and whether *)
(* an exception left the loader.  The parser collaborator fails where      *)
(* `fail` says: NoFail, 0 (opening the file) or j (reading its j-th part). *)

NoFail == -1

Unit(index, text, label) == [index |-> index, text |-> text, label |-> label]

\* the loop body of _load_pdf over pages 0..n-1 of the document
RECURSIVE PdfLoop(_, _)
PdfLoop(doc, n) ==
    IF n = 0 THEN <<>>
    ELSE LET i == n - 1
             text == Strip(doc[n])
         IN PdfLoop(doc, n - 1) \o
            (IF text # "" THEN <<Unit(i, text, "Page " \o ToString(i + 1))>> ELSE <<>>)

_load_pdf(file, fail) ==
    IF fail = 0 THEN [pages |-> <<>>, raised |-> TRUE]
    ELSE IF fail = NoFail
    THEN [pages |-> PdfLoop(file.doc, Len(file.doc)), raised |-> FALSE]
    ELSE [pages |-> PdfLoop(file.doc, fail - 1), raised |-> TRUE]

\* words[i:i+chunk_size] joined, for i in range(0, len(words), chunk_size)
RECURSIVE WindowPages(_, _, _)
WindowPages(words, starts, chunk_size) ==
    IF starts = <<>> THEN <<>>
    ELSE LET i == Head(starts)
         IN <<Unit(i \div chunk_size,
                   Join(" ", Slice(words, i, i + chunk_size)),
                   "Section " \o ToString(i \div chunk_size + 1))>>
            \o WindowPages(words, Tail(starts), chunk_size)

\* _load_txt with the window of the DOCX fallback
_load_txt_docx_window(file, fail) ==
    IF fail # NoFail THEN [pages |-> <<>>, raised |-> TRUE]
    ELSE LET words == SplitWords(file.content)
         IN [pages |-> WindowPages(words, Range0(Len(words), DocxChunkSize), DocxChunkSize),
             raised |-> FALSE]

_load_txt(file, fail) ==
    IF fail # NoFail THEN [pages |-> <<>>, raised |-> TRUE]
    ELSE LET words == SplitWords(file.content)
         IN [pages |-> WindowPages(words, Range0(Len(words), TxtChunkSize), TxtChunkSize),
             raised |-> FALSE]

\* a heading recognised only by the style name "Heading"
IsHeading_exact(para) == para.style = "Heading"

\* para.style.name.startswith("Heading")
IsHeading(para) == StartsWith(para.style, "Heading")

\* the loop of _load_docx over the first n paragraphs: the loop variables
\* current_chunk, chapter_idx, chapter_label and the pages appended so far
RECURSIVE DocxLoop(_, _)
DocxLoop(paragraphs, n) ==
    IF n = 0
    THEN [current_chunk |-> <<>>, chapter_idx |-> 0, chapter_label |-> "Section 1", pages |-> <<>>]
    ELSE LET st == DocxLoop(paragraphs, n - 1)
             para == paragraphs[n]
         IN IF IsHeading(para)
            THEN LET flushed == st.current_chunk # <<>>
                     idx == IF flushed THEN st.chapter_idx + 1 ELSE st.chapter_idx
                     stripped == Strip(para.text)
                 IN [current_chunk |-> <<>>,
                     chapter_idx |-> idx,
                     chapter_label |-> IF stripped # "" THEN stripped
                                       ELSE "Section " \o ToString(idx + 1),
                     pages |-> IF flushed
                               THEN Append(st.pages, Unit(st.chapter_idx,
                                                          Join("\n", st.current_chunk),
                                                          st.chapter_label))
                               ELSE st.pages]
            ELSE IF Strip(para.text) # ""
                 THEN [st EXCEPT !.current_chunk = Append(@, Strip(para.text))]
                 ELSE st

\* the texts p.text of the paragraphs with p.text.strip() non-empty
RECURSIVE NonBlankTexts(_)
NonBlankTexts(paragraphs) ==
    IF paragraphs = <<>> THEN <<>>
    ELSE (IF Strip(Head(paragraphs).text) # "" THEN <<Head(paragraphs).text>> ELSE <<>>)
         \o NonBlankTexts(Tail(paragraphs))

_load_docx(file, fail) ==
    IF fail # NoFail THEN [pages |-> <<>>, raised |-> TRUE]
    ELSE LET st == DocxLoop(file.paragraphs, Len(file.paragraphs))
             byHeading == IF st.current_chunk # <<>>
                          THEN Append(st.pages, Unit(st.chapter_idx,
                                                     Join("\n", st.current_chunk),
                                                     st.chapter_label))
                          ELSE st.pages
             words == SplitWords(Join("\n", NonBlankTexts(file.paragraphs)))
         IN [pages |-> IF byHeading # <<>> THEN byHeading
                       ELSE WindowPages(words, Range0(Len(words), DocxChunkSize), DocxChunkSize),
             raised |-> FALSE]

\* the loop of _load_epub over the first n items: chapter_idx and the pages
RECURSIVE EpubLoop(_, _)
EpubLoop(items, n) ==
    IF n = 0 THEN [chapter_idx |-> 0, pages |-> <<>>]
    ELSE LET st == EpubLoop(items, n - 1)
             item == items[n]
             text == Strip(item.text)
             label == IF item.heading # NoTag THEN Strip(item.heading)
                      ELSE "Chapter " \o ToString(st.chapter_idx + 1)
         IN IF item.type = ITEM_DOCUMENT /\ Len(text) > EpubMinChars
            THEN [chapter_idx |-> st.chapter_idx + 1,
                  pages |-> Append(st.pages, Unit(st.chapter_idx, text, label))]
            ELSE st

_load_epub(file, fail) ==
    IF fail = 0 THEN [pages |-> <<>>, raised |-> TRUE]
    ELSE IF fail = NoFail
    THEN [pages |-> EpubLoop(file.items, Len(file.items)).pages, raised |-> FALSE]
    ELSE [pages |-> EpubLoop(file.items, fail - 1).pages, raised |-> TRUE]

\* the places at which the parser of a file can fail
FailPoints(file) ==
    CASE file.kind = "pdf" -> 0..Len(file.doc)
      [] file.kind = "epub" -> 0..Len(file.items)
      [] OTHER -> {0}

\* the loader and doc_type that load() dispatches to for an extension
Dispatch(ext) ==
    CASE ext = ".pdf" -> "PDF"
      [] ext \in {".docx", ".doc"} -> "DOCX"
      [] ext = ".epub" -> "EPUB"
      [] ext = ".txt" -> "TXT"
      [] OTHER -> None

\* the private loader of a document type run on a file
RunLoader(type, file, fail) ==
    CASE type = "PDF" -> _load_pdf(file, fail)
      [] type = "DOCX" -> _load_docx(file, fail)
      [] type = "EPUB" -> _load_epub(file, fail)
      [] type = "TXT" -> _load_txt(file, fail)

-----------------------------------------------------------------------------
(* Tabulation.  The loaders, the chunker and lower() are pure; their       *)
(* values on the files of the catalogue are computed once and looked up,   *)
(* and computed directly on anything else.                                 *)

LoadKeys ==
    UNION {{<<p, fail>> : fail \in (IF Dispatch(LowerStr(SplitextExt(p))) = None THEN {}
                                     ELSE {NoFail} \cup FailPoints(Catalogue[p]))} : p \in Paths}

LoadTable ==
    [k \in LoadKeys |-> RunLoader(Dispatch(LowerStr(SplitextExt(k[1]))), Catalogue[k[1]], k[2])]

\* the loaders' results on the generated documents
DiskTable ==
    [disk \in Disks |->
        LET p == CHOOSE q \in DOMAIN disk : TRUE
        IN RunLoader(Dispatch(LowerStr(SplitextExt(p))), disk[p], NoFail)]
DiskPages == {DiskTable[disk].pages : disk \in Disks}

\* the result of the loader of `type` on `file`, found at `filepath`
Loaded(type, filepath, file, fail) ==
    IF <<filepath, fail>> \in LoadKeys /\ file.kind = Catalogue[filepath].kind
       /\ file = Catalogue[filepath]
    THEN LoadTable[<<filepath, fail>>]
    ELSE IF fail = NoFail /\ [p \in {filepath} |-> file] \in Disks
    THEN DiskTable[[p \in {filepath} |-> file]]
    ELSE RunLoader(type, file, fail)

KnownPages == {LoadTable[k].pages : k \in LoadKeys}
KnownTexts == UNION {{pgs[i].text : i \in 1..Len(pgs)} : pgs \in KnownPages}
LowerTable == [t \in KnownTexts |-> LowerStr(t)]

\* text.lower()
lower(s) == IF s \in KnownTexts THEN LowerTable[s] ELSE LowerStr(s)

-----------------------------------------------------------------------------
(* Pure helpers of the public API.                                         *)

\* [p["text"] for p in pages]
RECURSIVE Texts(_)
Texts(pgs) == IF pgs = <<>> THEN <<>> ELSE <<Head(pgs).text>> \o Texts(Tail(pgs))

\* the value of get_full_text(max_chars) when self.pages = pgs
FullText(pgs, max_chars) == Slice(Join("\n\n", Texts(pgs)), 0, max_chars)

\* the value of get_page(index) when self.pages = pgs
PageText(pgs, index) == IF 0 <= index /\ index < Len(pgs) THEN pgs[index + 1].text ELSE ""

\* " ".join(words[i:i + chunk_size]) for i in range(0, len(words), chunk_size - overlap)
RECURSIVE WindowTexts(_, _)
WindowTexts(words, starts) ==
    IF starts = <<>> THEN <<>>
    ELSE <<Join(" ", Slice(words, Head(starts), Head(starts) + IndexChunkSize))>>
         \o WindowTexts(words, Tail(starts))

\* the chunk strings _build_vector_index derives from one page text
ChunkTexts(text) ==
    LET words == SplitWords(text)
    IN IF words = <<>> THEN <<>>
       ELSE WindowTexts(words, Range0(Len(words), IndexChunkSize - IndexOverlap))

\* the chunks of one page with their metadatas
RECURSIVE PageChunks(_, _)
PageChunks(page, texts) ==
    IF texts = <<>> THEN <<>>
    ELSE <<[document |-> Head(texts), page |-> page.index, label |-> page.label]>>
         \o PageChunks(page, Tail(texts))

\* docs/metadatas accumulated over self.pages in _build_vector_index
RECURSIVE BuildDocs(_)
BuildDocs(pgs) ==
    IF pgs = <<>> THEN <<>>
    ELSE PageChunks(Head(pgs), ChunkTexts(Head(pgs).text)) \o BuildDocs(Tail(pgs))

DocsTable == [pgs \in KnownPages \cup DiskPages |-> BuildDocs(pgs)]

\* docs, metadatas of _build_vector_index for self.pages = pgs
IndexDocs(pgs) == IF pgs \in DOMAIN DocsTable THEN DocsTable[pgs] ELSE BuildDocs(pgs)

\* a snippet that starts at the match
Snippet_from_match(text, pos) == Slice(text, pos, pos + SnippetAfter)

\* page["text"][max(0, pos-60):pos+120]
Snippet(text, pos) == Slice(text, Max(0, pos - SnippetBefore), pos + SnippetAfter)

\* the matches of search(query) over pages
RECURSIVE SearchResults(_, _)
SearchResults(pgs, q) ==
    IF pgs = <<>> THEN <<>>
    ELSE LET page == Head(pgs)
             pos == FindStr(lower(page.text), q)
         IN (IF pos # -1
             THEN <<[page |-> page.index, label |-> page.label,
                     snippet |-> Snippet(page.text, pos)]>>
             ELSE <<>>)
            \o SearchResults(Tail(pgs), q)

-----------------------------------------------------------------------------
(* The embedding-index service: the Chroma client and its one collection.  *)
(* Every call can fail (a fault of the service); delete_collection also    *)
(* fails when the collection does not exist, create_collection when it     *)
(* already exists.  A failing add may have stored a prefix of the chunks.  *)

Handle == CollectionName
Absent == [exists |-> FALSE, docs |-> <<>>]
\* a collaborator call: its name, argument, whether it returned, its result
Call(fn, a, ok, out) == [fn |-> fn, arg |-> a, ok |-> ok, out |-> out]

Queries == {"Hello"}
NResults == {-1, 0, 1, DefaultNResults}

\* why create_collection raised: a fault of the service, or the name is taken
ServiceFault == "fault"
AlreadyExists == "collection already exists"

BuildEnvs ==
    [delete : {"ok", "fault"}, create : {"ok", "fault"}, add : {NoFail} \cup 0..MaxPartialAdd]

\* the handler of _build_vector_index leaving self.collection as it is
OnBuildError_keeps_handle(handle) == handle

\* the handler `except Exception` of _build_vector_index: self.collection
\* after it, `handle` being self.collection when the exception was raised
OnBuildError(handle) == None

\* _build_vector_index applied to self.pages = pgs and self.collection = coll:
\* the new self.collection, the state of the service afterwards and the
\* collaborator calls made
_build_vector_index(pgs, coll, service, env) ==
    LET delOk == service.exists /\ env.delete = "ok"
        s1 == IF delOk THEN Absent ELSE service
        c1 == <<Call("delete_collection", CollectionName, delOk, None)>>
        createOk == ~s1.exists /\ env.create = "ok"
        c2 == c1 \o <<Call("create_collection", CollectionName, createOk,
                          IF createOk THEN None
                          ELSE IF env.create = "fault" THEN ServiceFault ELSE AlreadyExists)>>
        docs == IndexDocs(pgs)
    IN IF ~createOk
       THEN [collection |-> OnBuildError(coll), svc |-> s1, calls |-> c2]
       ELSE IF docs = <<>>
       THEN [collection |-> Handle, svc |-> [exists |-> TRUE, docs |-> <<>>], calls |-> c2]
       ELSE IF env.add = NoFail
       THEN [collection |-> Handle, svc |-> [exists |-> TRUE, docs |-> docs],
             calls |-> c2 \o <<Call("add", Len(docs), TRUE, Len(docs))>>]
       ELSE LET stored == Min(env.add, Len(docs) - 1)
            IN [collection |-> OnBuildError(Handle),
                svc |-> [exists |-> TRUE, docs |-> SubSeq(docs, 1, stored)],
                calls |-> c2 \o <<Call("add", Len(docs), FALSE, stored)>>]

-----------------------------------------------------------------------------
(* Public API: one action per operation.                                   *)

Init ==
    /\ pages = <<>>
    /\ current_page = 0
    /\ file_path = None
    /\ doc_type = None
    /\ title = UntitledDocument
    /\ collection = None
    /\ svc = Absent
    /\ fs = Catalogue
    /\ op = "__init__"
    /\ arg = <<>>
    /\ ret = None
    /\ raised = FALSE
    /\ calls = <<>>

load(filepath) ==
    LET ext == LowerStr(SplitextExt(filepath))
        type == Dispatch(ext)
    IN /\ op' = "load"
       /\ arg' = <<filepath>>
       /\ raised' = FALSE
       /\ current_page' = 0
       /\ file_path' = filepath
       /\ title' = Basename(filepath)
       /\ fs' = fs
       /\ IF type = None
          THEN /\ pages' = <<>>
               /\ ret' = FALSE
               /\ calls' = <<>>
               /\ UNCHANGED <<doc_type, collection, svc>>
          ELSE \E fail \in (IF filepath \in DOMAIN fs
                            THEN {NoFail} \cup FailPoints(fs[filepath]) ELSE {0}) :
               LET r == Loaded(type, filepath, IF filepath \in DOMAIN fs THEN fs[filepath]
                                                  ELSE MissingFile, fail)
               IN /\ pages' = r.pages
                  /\ IF r.raised
                     THEN /\ ret' = FALSE
                          /\ calls' = <<Call("parse", filepath, FALSE, None)>>
                          /\ UNCHANGED <<doc_type, collection, svc>>
                     ELSE /\ doc_type' = type
                          /\ IF Len(r.pages) > 0
                             THEN \E env \in BuildEnvs :
                                  LET b == _build_vector_index(r.pages, collection, svc, env)
                                  IN /\ collection' = b.collection
                                     /\ svc' = b.svc
                                     /\ calls' = <<Call("parse", filepath, TRUE, None)>> \o b.calls
                                     /\ ret' = TRUE
                             ELSE /\ ret' = FALSE
                                  /\ calls' = <<Call("parse", filepath, TRUE, None)>>
                                  /\ UNCHANGED <<collection, svc>>

unload(delete_file) ==
    LET isfile == file_path # None /\ file_path \in DOMAIN fs
        tryRemove == delete_file /\ isfile
    IN /\ tryRemove => Cardinality(Paths \ DOMAIN fs) < MaxDeleted
       /\ \E rm \in {"ok", "fault"}, del \in {"ok", "fault"} :
          LET rmOk == tryRemove /\ rm = "ok"
              delOk == collection # None /\ svc.exists /\ del = "ok"
          IN /\ fs' = IF rmOk THEN [p \in DOMAIN fs \ {file_path} |-> fs[p]] ELSE fs
             /\ svc' = IF delOk THEN Absent ELSE svc
             /\ collection' = IF delOk THEN None ELSE collection
             /\ calls' = (IF tryRemove THEN <<Call("remove", file_path, rmOk, None)>> ELSE <<>>)
                         \o (IF collection # None
                             THEN <<Call("delete_collection", CollectionName, delOk, None)>> ELSE <<>>)
       /\ pages' = <<>>
       /\ current_page' = 0
       /\ file_path' = None
       /\ doc_type' = None
       /\ title' = UntitledDocument
       /\ op' = "unload"
       /\ arg' = <<delete_file>>
       /\ ret' = TRUE
       /\ raised' = FALSE

\* next_page with the bound off by one
next_page_off_by_one ==
    /\ IF current_page < Len(pages)
       THEN current_page' = current_page + 1 /\ ret' = TRUE
       ELSE current_page' = current_page /\ ret' = FALSE
    /\ op' = "next_page" /\ arg' = <<>> /\ raised' = FALSE /\ calls' = <<>>
    /\ UNCHANGED <<pages, file_path, doc_type, title, collection, svc, fs>>

next_page ==
    /\ IF current_page < Len(pages) - 1
       THEN current_page' = current_page + 1 /\ ret' = TRUE
       ELSE current_page' = current_page /\ ret' = FALSE
    /\ op' = "next_page" /\ arg' = <<>> /\ raised' = FALSE /\ calls' = <<>>
    /\ UNCHANGED <<pages, file_path, doc_type, title, collection, svc, fs>>

prev_page ==
    /\ IF current_page > 0
       THEN current_page' = current_page - 1 /\ ret' = TRUE
       ELSE current_page' = current_page /\ ret' = FALSE
    /\ op' = "prev_page" /\ arg' = <<>> /\ raised' = FALSE /\ calls' = <<>>
    /\ UNCHANGED <<pages, file_path, doc_type, title, collection, svc, fs>>

go_to_page(index) ==
    /\ IF 0 <= index /\ index < Len(pages)
       THEN current_page' = index /\ ret' = TRUE
       ELSE current_page' = current_page /\ ret' = FALSE
    /\ op' = "go_to_page" /\ arg' = <<index>> /\ raised' = FALSE /\ calls' = <<>>
    /\ UNCHANGED <<pages, file_path, doc_type, title, collection, svc, fs>>

\* an operation that only reads the document and returns value
Reads(name, args, value) ==
    /\ op' = name /\ arg' = args /\ ret' = value /\ raised' = FALSE /\ calls' = <<>>
    /\ UNCHANGED <<pages, current_page, file_path, doc_type, title, collection, svc, fs>>

page_count == Reads("page_count", <<>>, Len(pages))

get_page(index) == Reads("get_page", <<index>>, PageText(pages, index))

get_full_text(max_chars) == Reads("get_full_text", <<max_chars>>, FullText(pages, max_chars))

get_current_text == Reads("get_current_text", <<>>, PageText(pages, current_page))

get_current_label ==
    Reads("get_current_label", <<>>,
          IF 0 <= current_page /\ current_page < Len(pages)
          THEN pages[current_page + 1].label ELSE "Unknown")

get_chapter_text(chapter_num) ==
    Reads("get_chapter_text", <<chapter_num>>, PageText(pages, chapter_num - 1))

search(query) == Reads("search", <<query>>, SearchResults(pages, LowerStr(query)))

\* the documents a successful collection.query(n_results=k) returns: m of the
\* stored chunks, ranked from the r-th on
RECURSIVE Ranked(_, _, _)
Ranked(docs, r, m) ==
    IF m = 0 THEN <<>>
    ELSE Ranked(docs, r, m - 1) \o <<docs[((r + m - 2) % Len(docs)) + 1].document>>

Outcome(value, exc, made) == [ret |-> value, raised |-> exc, calls |-> made]

\* k without the clamp to the chunk count
EffectiveK_unclamped(n_results, count) == n_results

\* k = min(n_results, self.collection.count())
EffectiveK(n_results, count) == Min(n_results, count)

\* the fallback with the default cap of get_full_text
Fallback_default_cap(pgs) == FullText(pgs, DefaultMaxChars)

\* self.get_full_text(max_chars=10000)
Fallback(pgs) == FullText(pgs, ContextMaxChars)

\* what get_relevant_context(query, n_results) can return, with the calls it
\* makes, when self.pages = pgs, self.collection = coll and the service
\* holds `service`
RelevantContext(pgs, coll, service, n_results) ==
    IF coll = None
    THEN {Outcome(Fallback(pgs), FALSE, <<>>)}
    ELSE LET count == Len(service.docs)
             k == EffectiveK(n_results, count)
             cnt == Call("count", None, TRUE, count)
             cntFails == Call("count", None, FALSE, None)
         IN \* the first collection.count() raises
            {Outcome(None, TRUE, <<cntFails>>)}
            \cup
            (IF ~service.exists THEN {}
             ELSE IF count = 0
             THEN {Outcome(Fallback(pgs), FALSE, <<cnt>>)}
             ELSE \* the second collection.count() raises
                  {Outcome(None, TRUE, <<cnt, cntFails>>)}
                  \cup
                  (IF k = 0
                   THEN {Outcome("", FALSE, <<cnt, cnt>>)}
                   ELSE \* collection.query raises
                        {Outcome(Fallback(pgs), FALSE, <<cnt, cnt, Call("query", k, FALSE, None)>>)}
                        \cup
                        \* collection.query answers m of its chunks
                        {LET documents == Ranked(service.docs, rm[1], rm[2])
                         IN Outcome(IF documents = <<>> THEN Fallback(pgs)
                                    ELSE Join("\n...\n", documents),
                                    FALSE, <<cnt, cnt, Call("query", k, TRUE, documents)>>)
                         : rm \in (IF k > 0 THEN (1..Min(count, MaxRankings)) \X {0, k}
                                   ELSE {})}))

get_relevant_context(query, n_results) ==
    /\ \E o \in RelevantContext(pages, collection, svc, n_results) :
          ret' = o.ret /\ raised' = o.raised /\ calls' = o.calls
    /\ op' = "get_relevant_context"
    /\ arg' = <<query, n_results>>
    /\ UNCHANGED <<pages, current_page, file_path, doc_type, title, collection, svc, fs>>

Next ==
    \/ \E filepath \in Paths : load(filepath)
    \/ \E delete_file \in BOOLEAN : unload(delete_file)
    \/ next_page
    \/ prev_page
    \/ \E index \in -1..MaxGoto : go_to_page(index)
    \/ page_count
    \/ \E index \in -1..MaxGoto : get_page(index)
    \/ get_full_text(DefaultMaxChars)
    \/ get_current_text
    \/ get_current_label
    \/ \E chapter_num \in 0..MaxGoto : get_chapter_text(chapter_num)
    \/ \E query \in Queries : search(query)
    \/ \E query \in Queries, n_results \in NResults : get_relevant_context(query, n_results)

Spec == Init /\ [][Next]_vars

-----------------------------------------------------------------------------
(* Loading single documents: a processor started on a disk that holds one  *)
(* generated flat-text or DOCX document, which is loaded and reloaded.     *)

InitDisk ==
    /\ fs \in Disks
    /\ pages = <<>>
    /\ current_page = 0
    /\ file_path = None
    /\ doc_type = None
    /\ title = UntitledDocument
    /\ collection = None
    /\ svc = Absent
    /\ op = "__init__"
    /\ arg = <<>>
    /\ ret = None
    /\ raised = FALSE
    /\ calls = <<>>

NextLoad == \E filepath \in DOMAIN fs : load(filepath)

SpecLoad == InitDisk /\ [][NextLoad]_vars

-----------------------------------------------------------------------------
(* Searching: a processor started on a disk of three small documents,      *)
(* which are loaded and searched.                                          *)

\* a flat-text file of one short line
HelloFile == [kind |-> "txt", content |-> "say hello world"]

\* a flat-text file whose only unit is longer than a snippet
LineFile == [kind |-> "txt", content |-> WordRun(LineWords) \o " Hello\n"]

\* a DOCX document of three sections, two of which say hello
SectionsFile ==
    [kind |-> "docx",
     paragraphs |-> << [style |-> "Heading 1", text |-> "Intro"],
                       [style |-> "Normal", text |-> "Say Hello to the WORLD, hello"],
                       [style |-> "Heading 1", text |-> "Methods"],
                       [style |-> "Normal", text |-> "hell, low world"],
                       [style |-> "Heading 1", text |-> "Results"],
                       [style |-> "Normal", text |-> "w5 and HELLO again"] >>]

SearchDisk ==
    [p \in {"hello.txt", "line.txt", "sections.docx"} |->
        CASE p = "hello.txt" -> HelloFile
          [] p = "line.txt" -> LineFile
          [] p = "sections.docx" -> SectionsFile]

SearchQueries == {"hello", "HeLLo", "W5", "W20 ", "world!", ""}

InitSearch ==
    /\ fs = SearchDisk
    /\ pages = <<>>
    /\ current_page = 0
    /\ file_path = None
    /\ doc_type = None
    /\ title = UntitledDocument
    /\ collection = None
    /\ svc = Absent
    /\ op = "__init__"
    /\ arg = <<>>
    /\ ret = None
    /\ raised = FALSE
    /\ calls = <<>>

NextSearch ==
    \/ \E filepath \in DOMAIN fs : load(filepath)
    \/ \E query \in SearchQueries : search(query)

SpecSearch == InitSearch /\ [][NextSearch]_vars

-----------------------------------------------------------------------------
(* Properties.                                                             *)

\* the last operation made a collaborator call fn / one that failed
Made(fn) == \E i \in DOMAIN calls : calls[i].fn = fn
FailedCall(fn) == \E i \in DOMAIN calls : calls[i].fn = fn /\ ~calls[i].ok

\* the last operation was a load whose loader produced units, so that
\* _build_vector_index ran
BuildRan == op = "load" /\ Made("delete_collection")

\* in the current state every get_relevant_context returns the full-text
\* fallback and asks nothing of the index
OnlyFallback ==
    \A n \in NResults :
        RelevantContext(pages, collection, svc, n)
            = {Outcome(FullText(pages, ContextMaxChars), FALSE, <<>>)}

\* C1: in every reachable state the Document is either unloaded (no units,
\* cursor 0, no index handle) or loaded (units, cursor within them).
C1_TwoDocumentStates ==
    \/ pages = <<>> /\ current_page = 0 /\ collection = None
    \/ pages # <<>> /\ 0 <= current_page /\ current_page < Len(pages)

\* C2: whenever load returns false, no unit is left loaded.
C2_FailedLoadLeavesNoUnits ==
    (op = "load" /\ ret = FALSE) => Len(pages) = 0

\* C3: whenever the index handle is not none, the index holds exactly the
\* chunks derived from the units the Document holds now.
C3_IndexScopedToDocument ==
    collection # None => (svc.exists /\ svc.docs = BuildDocs(pages))

\* C4 as claimed: when any step of the index build fails (teardown, create
\* or submission), load returns true, the Document is loaded without an
\* index handle, and the next get_relevant_context is the fallback.
C4_AnyBuildFailureDropsIndex ==
    (BuildRan /\ (FailedCall("delete_collection") \/ FailedCall("create_collection")
                  \/ FailedCall("add")))
        => (ret = TRUE /\ pages # <<>> /\ collection = None /\ OnlyFallback)

\* C4 as amended: an index build never fails the load, and a failed
\* teardown does not keep the build from attempting the create; when the
\* create or the submission fails (also partway), the Document is loaded
\* without an index handle and the next get_relevant_context is the
\* full-text fallback, not an answer from the partly filled index.
C4_BuildFailureDegrades ==
    BuildRan =>
        /\ ret = TRUE /\ ~raised
        /\ pages # <<>> /\ 0 <= current_page /\ current_page < Len(pages)
        /\ Made("create_collection")
        /\ (FailedCall("create_collection") \/ FailedCall("add"))
              => (collection = None /\ OnlyFallback)

\* a load whose submission failed after the service had stored a chunk
C4_Witness ==
    /\ BuildRan /\ FailedCall("add") /\ ret = TRUE
    /\ svc.exists /\ svc.docs # <<>> /\ collection = None

\* the fallback cases of the last get_relevant_context
CountReturned(c) == Made("count") /\ calls[1].ok /\ calls[1].out = c
QueryReturnedNothing ==
    \E i \in DOMAIN calls : calls[i].fn = "query" /\ calls[i].ok /\ calls[i].out = <<>>

\* C5: whenever there is no index handle, or the index counts 0 chunks, or
\* the query raises, or the query returns no documents,
\* get_relevant_context returns exactly get_full_text(10000).
C5_FallbackIsFullText ==
    (op = "get_relevant_context"
     /\ (collection = None \/ CountReturned(0) \/ FailedCall("query") \/ QueryReturnedNothing))
        => (~raised /\ ret = FullText(pages, ContextMaxChars))

\* a query that returned no documents on a document longer than the cap
C5_Witness ==
    /\ op = "get_relevant_context" /\ QueryReturnedNothing
    /\ Len(ret) = ContextMaxChars
    /\ Len(FullText(pages, DefaultMaxChars)) > ContextMaxChars

\* C6: no failure of a service operation propagates out of a public
\* operation.
C6_NoServiceFailurePropagates == ~raised

\* C7: with n_results >= 1 on an index whose count() answers c >= 1,
\* get_relevant_context does not raise, queries with k = min(n_results, c)
\* (so with c when n_results > c), and a non-empty answer is at most k chunks
\* of the index joined in the order the service ranked them.
C7_KClamped ==
    (op = "get_relevant_context" /\ collection # None /\ arg[2] >= 1
     /\ Len(calls) >= 2 /\ calls[1].ok /\ calls[2].ok /\ calls[1].out >= 1)
        => /\ ~raised
           /\ Len(calls) = 3 /\ calls[3].fn = "query"
           /\ calls[3].arg = Min(arg[2], calls[1].out)
           /\ (arg[2] > calls[1].out => calls[3].arg = calls[1].out)
           /\ (calls[3].ok /\ calls[3].out # <<>>)
                 => /\ Len(calls[3].out) <= calls[3].arg
                    /\ \A j \in DOMAIN calls[3].out :
                          \E i \in DOMAIN svc.docs : svc.docs[i].document = calls[3].out[j]
                    /\ ret = Join("\n...\n", calls[3].out)

\* more results asked for than the index has chunks, all of them returned
C7_Witness ==
    /\ op = "get_relevant_context" /\ collection # None
    /\ Len(svc.docs) >= 2 /\ arg[2] > Len(svc.docs)
    /\ Len(calls) = 3 /\ calls[3].ok /\ Len(calls[3].out) = Len(svc.docs)
    /\ ~raised

\* C8: next_page succeeds and increments iff cursor < N-1, prev_page succeeds
\* and decrements iff cursor > 0, go_to_page(i) succeeds and sets the cursor
\* iff 0 <= i < N; otherwise they return false and leave the cursor alone.
C8_Step ==
    /\ op' = "next_page" =>
          IF current_page < Len(pages) - 1
          THEN ret' = TRUE /\ current_page' = current_page + 1
          ELSE ret' = FALSE /\ current_page' = current_page
    /\ op' = "prev_page" =>
          IF current_page > 0
          THEN ret' = TRUE /\ current_page' = current_page - 1
          ELSE ret' = FALSE /\ current_page' = current_page
    /\ op' = "go_to_page" =>
          IF 0 <= arg'[1] /\ arg'[1] < Len(pages)
          THEN ret' = TRUE /\ current_page' = arg'[1]
          ELSE ret' = FALSE /\ current_page' = current_page
    /\ op' \in {"next_page", "prev_page", "go_to_page"} =>
          /\ pages' = pages
          /\ pages = <<>> \/ (0 <= current_page' /\ current_page' < Len(pages))

\* C8: every step of the program is a step as C8_Step describes: navigation
\* succeeds exactly in range and never moves the cursor otherwise.
C8_NavigationInRange == [][C8_Step]_vars

\* next_page refused at the last unit, reached by moving there
C8_Witness ==
    /\ op = "next_page" /\ ret = FALSE
    /\ current_page = Len(pages) - 1 /\ current_page > 0

\* C9: unload always returns true and leaves the Document unloaded: no
\* units, cursor 0, no index handle.
C9_UnloadResets ==
    op = "unload" => (ret = TRUE /\ pages = <<>> /\ current_page = 0 /\ collection = None)

\* C10: of two unload calls in a row both return true and the second leaves
\* the Document as the first left it.
C10_Step ==
    (op = "unload" /\ op' = "unload") =>
        /\ ret = TRUE /\ ret' = TRUE
        /\ <<pages, current_page, file_path, doc_type, title, collection>>'
             = <<pages, current_page, file_path, doc_type, title, collection>>

\* C10: every unload that directly follows an unload returns true, as the
\* first did, and changes nothing of the Document.
C10_UnloadIdempotent == [][C10_Step]_vars

\* C11: after an unload whose delete collaborator did not fail, the service
\* holds no collection.
C11_NoIndexOutlivesUnload ==
    (op = "unload" /\ ~FailedCall("delete_collection")) => ~svc.exists

\* the create collaborator itself failed during the last operation
CreateFaulted ==
    \E i \in DOMAIN calls :
        calls[i].fn = "create_collection" /\ ~calls[i].ok /\ calls[i].out = ServiceFault

\* C19: when the teardown of an index build fails and neither the create nor
\* the submission collaborator is at fault, the create is attempted and the
\* load ends with an index handle over the chunks of the new document.
C19_FailedTeardownDoesNotBlockCreate ==
    (BuildRan /\ FailedCall("delete_collection") /\ ~CreateFaulted /\ ~FailedCall("add"))
        => /\ Made("create_collection")
           /\ collection # None
           /\ svc.exists /\ svc.docs = IndexDocs(pages)

\* C14: after every successful load the unit at position j has index j, and
\* every unit has non-empty text.
C14_IndicesContiguous ==
    (op = "load" /\ ret = TRUE)
        => \A j \in 1..Len(pages) : pages[j].index = j - 1 /\ pages[j].text # ""

\* C20: for every match m that search(query) returns on a loaded document,
\* go_to_page(m.page) would succeed and get_page(m.page) is the text of the
\* unit of the match: it carries the match's index, contains the query
\* case-insensitively and the snippet as a substring.
C20_SearchResultsNavigable ==
    (op = "search" /\ pages # <<>>)
        => \A i \in DOMAIN ret :
              LET m == ret[i]
                  text == PageText(pages, m.page)
              IN /\ 0 <= m.page /\ m.page < Len(pages)
                 /\ pages[m.page + 1].index = m.page
                 /\ FindStr(lower(text), LowerStr(arg[1])) # -1
                 /\ FindStr(text, m.snippet) # -1

\* ceil(a / b) for a >= 0, b >= 1
Ceil(a, b) == (a + b - 1) \div b

\* the last operation was a load of a document of the given kind that its
\* parser read without failing
LoadedKind(kind) ==
    /\ op = "load" /\ calls # <<>> /\ calls[1].fn = "parse" /\ calls[1].ok
    /\ file_path \in DOMAIN fs /\ fs[file_path].kind = kind

\* C15: loading a TXT file of M >= 1 whitespace-separated words yields
\* ceil(M / 600) units, unit j holding the words 600j .. min(600(j+1), M) - 1
\* joined by single blanks, with index j and label "Section j+1"; loading a
\* TXT file of 0 words returns false and yields no unit.
C15_FlatTextUnits ==
    LoadedKind("txt") =>
        LET words == SplitWords(fs[file_path].content)
            M == Len(words)
        IN IF M = 0
           THEN ret = FALSE /\ pages = <<>>
           ELSE /\ ret = TRUE
                /\ Len(pages) = Ceil(M, 600)
                /\ \A j \in 0..(Len(pages) - 1) :
                      /\ pages[j + 1].index = j
                      /\ pages[j + 1].label = "Section " \o ToString(j + 1)
                      /\ SplitWords(pages[j + 1].text)
                            = SubSeq(words, 600 * j + 1, Min(600 * (j + 1), M))
                      /\ pages[j + 1].text
                            = Join(" ", SubSeq(words, 600 * j + 1, Min(600 * (j + 1), M)))

\* the flat-text file of 650 words loaded as 2 units
C15_Witness ==
    /\ LoadedKind("txt") /\ ret = TRUE
    /\ Len(SplitWords(fs[file_path].content)) = 650
    /\ Len(pages) = 2
    /\ Len(SplitWords(pages[1].text)) = 600 /\ Len(SplitWords(pages[2].text)) = 50

\* the last operation was a load whose index build submitted every chunk
Indexed == BuildRan /\ collection # None /\ Made("add") /\ ~FailedCall("add")

\* the words of the chunks the index holds for the unit of the given index
ChunkWordsOf(index) ==
    LET cs == SelectSeq(svc.docs, LAMBDA c : c.page = index)
    IN [i \in DOMAIN cs |-> SplitWords(cs[i].document)]

\* C12: a unit of M > 50 words is indexed as ceil((M - 50) / (300 - 50))
\* chunks.
C12_ChunkCount ==
    Indexed =>
        \A j \in DOMAIN pages :
            LET M == Len(SplitWords(pages[j].text))
            IN M > 50 => Len(ChunkWordsOf(pages[j].index)) = Ceil(M - 50, 300 - 50)

\* C13: chunk i of a unit is the run of at most 300 words from word 250 i on;
\* only the last chunk is shorter than 300 words; the chunks cover the unit;
\* consecutive chunks share exactly 50 words.
C13_ChunkLayout ==
    Indexed =>
        \A j \in DOMAIN pages :
            LET words == SplitWords(pages[j].text)
                M == Len(words)
                chunks == ChunkWordsOf(pages[j].index)
                n == Len(chunks)
            IN /\ n >= 1
               /\ \A i \in 0..(n - 1) :
                     chunks[i + 1] = SubSeq(words, 250 * i + 1, Min(250 * i + 300, M))
               /\ \A i \in 0..(n - 2) : Len(chunks[i + 1]) = 300
               /\ 250 * (n - 1) + Len(chunks[n]) = M
               /\ \A i \in 0..(n - 2) :
                     /\ Len(chunks[i + 2]) >= 50
                     /\ Len(chunks[i + 1]) - 250 = 50
                     /\ SubSeq(chunks[i + 1], 251, Len(chunks[i + 1])) = SubSeq(chunks[i + 2], 1, 50)

\* the paragraph has one of the heading styles of the generated documents
HasHeadingStyle(para) == para.style \in {"Heading 1", "Heading 2"}

\* the words of the texts of the given paragraphs
ParagraphWords(paragraphs) ==
    SplitWords(Join("\n", [i \in DOMAIN paragraphs |-> paragraphs[i].text]))

\* C18: loading a DOCX document that has body text of M >= 1 words and no
\* heading paragraph yields ceil(M / 500) units, none of more than 500 words.
C18_HeadinglessWindows ==
    LoadedKind("docx") =>
        LET paragraphs == fs[file_path].paragraphs
            M == Len(ParagraphWords(paragraphs))
        IN ((\A i \in DOMAIN paragraphs : ~HasHeadingStyle(paragraphs[i])) /\ M >= 1)
              => /\ Len(pages) = Ceil(M, 500)
                 /\ \A j \in DOMAIN pages : Len(SplitWords(pages[j].text)) <= 500

\* the heading paragraphs among the given paragraphs, in document order
HeadingsOf(paragraphs) == SelectSeq(paragraphs, HasHeadingStyle)

\* C16 as claimed: loading a DOCX document whose headings are H1..Hn, n >= 1
\* (none of them blank), yields exactly n units labelled H1..Hn in document
\* order.
C16_OneUnitPerHeading ==
    LoadedKind("docx") =>
        LET hs == HeadingsOf(fs[file_path].paragraphs)
        IN (Len(hs) >= 1 /\ \A i \in DOMAIN hs : Strip(hs[i].text) # "")
              => /\ Len(pages) = Len(hs)
                 /\ \A i \in DOMAIN hs : pages[i].label = Strip(hs[i].text)

\* the document starts with a heading, no heading is blank, and every
\* heading has a non-blank body paragraph before the next heading
WellSectioned(paragraphs) ==
    /\ paragraphs # <<>> /\ HasHeadingStyle(paragraphs[1])
    /\ \A i \in DOMAIN paragraphs :
          HasHeadingStyle(paragraphs[i])
             => /\ Strip(paragraphs[i].text) # ""
                /\ \E k \in (i + 1)..Len(paragraphs) :
                      /\ Strip(paragraphs[k].text) # ""
                      /\ \A l \in (i + 1)..k : ~HasHeadingStyle(paragraphs[l])

\* C16 as amended: loading a DOCX document that starts with a heading and in
\* which every heading H1..Hn is non-blank and has body text before the next
\* heading returns true and yields exactly n units, unit i with index i - 1
\* and the stripped text of Hi as its label.
C16_HeadingUnits ==
    LoadedKind("docx") =>
        LET paragraphs == fs[file_path].paragraphs
            hs == HeadingsOf(paragraphs)
        IN WellSectioned(paragraphs)
              => /\ ret = TRUE
                 /\ Len(pages) = Len(hs)
                 /\ \A i \in DOMAIN hs :
                       /\ pages[i].index = i - 1
                       /\ pages[i].label = Strip(hs[i].text)
                       /\ pages[i].text # ""

\* the document with the headings "Intro" and "Methods", each with body text,
\* loaded as the units "Intro" and "Methods"
C16_Witness ==
    /\ LoadedKind("docx") /\ ret = TRUE
    /\ WellSectioned(fs[file_path].paragraphs)
    /\ Len(HeadingsOf(fs[file_path].paragraphs)) = 2
    /\ Len(pages) = 2 /\ pages[1].label = "Intro" /\ pages[2].label = "Methods"

\* the 0-based positions at which q occurs in t
Occurrences(t, q) == {p \in 0..(Len(t) - Len(q)) : SubSeq(t, p + 1, p + Len(q)) = q}

\* the units whose lowercased text contains the lowercased query
UnitsContaining(query) ==
    SelectSeq(pages, LAMBDA u : Occurrences(LowerStr(u.text), LowerStr(query)) # {})

\* C17: search(query) returns, in unit order, one match for each unit whose
\* lowercased text contains the lowercased query and none for the others;
\* the match carries the unit's index and label, and its snippet is the unit
\* text from max(0, p - 60) to min(len, p + 120), p the first occurrence.
C17_SearchMatches ==
    op = "search" =>
        LET hits == UnitsContaining(arg[1])
        IN /\ ~raised
           /\ Len(ret) = Len(hits)
           /\ \A i \in DOMAIN hits :
                 LET text == hits[i].text
                     occ == Occurrences(LowerStr(text), LowerStr(arg[1]))
                     p == CHOOSE x \in occ : \A y \in occ : x <= y
                 IN /\ ret[i].page = hits[i].index
                    /\ ret[i].label = hits[i].label
                    /\ ret[i].snippet = SubSeq(text, Max(0, p - 60) + 1, Min(Len(text), p + 120))

\* search("hello") on the unit "say hello world" returns it whole
C17_Witness ==
    /\ op = "search" /\ arg = <<"hello">>
    /\ Len(pages) = 1 /\ pages[1].text = "say hello world"
    /\ Len(ret) = 1 /\ ret[1].snippet = "say hello world"

\* a snippet cut on both sides: 60 characters before the match, 120 from it
C17_WitnessClipped ==
    /\ op = "search" /\ Len(ret) = 1
    /\ Len(ret[1].snippet) = 60 + 120
    /\ Len(pages[1].text) > Len(ret[1].snippet)

====
